---- MODULE Spec2Model ----
(***************************************************************************)
(* altcha-lite: the anti-replay cache and the /verify request pipeline.    *)
(*                                                                         *)
(* The repository holds two variants of the server:                        *)
(*   "ristretto" : src/main.go          - usedSolutions is a ristretto     *)
(*                 cache with per-entry TTL, guarded by the configuration  *)
(*                 flag replayDetectionEnabled, with the occupancy counter *)
(*                 cacheCount;                                             *)
(*   "map"       : src/unnamed/part_000 - usedSolutions is a Go map        *)
(*                 guarded by cacheMutex and swept by startCacheCleaner.   *)
(* The variant and the configuration are fixed at start-up (Init).         *)
(*                                                                         *)
(* Time is a bounded integer clock.  One clock unit stands for one hour:   *)
(* cacheTTL (3 * time.Hour) is 3 units, and the configured challenge       *)
(* window expireTimeInMins is drawn, in the same unit, from ExpireChoices  *)
(* so that windows shorter and longer than cacheTTL both occur.  The       *)
(* cleaner's ticker period (15 minutes) is shorter than one unit, so a     *)
(* sweep may run at any clock value.                                       *)
(***************************************************************************)
EXTENDS Integers, Sequences, FiniteSets, TLC

\* ---------------------------------------------------------------- bounds
NumReqs   == 2      \* request-handling goroutines that may be in flight
NumTokens == 2      \* challenges the provider may issue (solved payloads)
MaxTime   == 4      \* last value of the clock
SetBufCap == 1      \* capacity of the bounded store's write buffer
StoreCap  == 1      \* entries the bounded store admits before evicting
MaxVerify == 2      \* /verify requests received over a run

\* ------------------------------------------------------ program constants
cacheTTL  == 3      \* 3 * time.Hour
StatusOK                  == 200
StatusBadRequest          == 400
StatusForbidden           == 403
StatusMethodNotAllowed    == 405
StatusInternalServerError == 500

ExpireChoices == {1, 4}     \* values of EXPIRE_TIME_IN_MINS explored

None == -1                  \* "no time": absent map entry, unissued token

Reqs    == 1..NumReqs
Tokens  == 1..NumTokens
Times   == 0..MaxTime

\* Payloads (the form field "altcha").  0 is the empty string; t in
\* 1..NumTokens is the well-formed payload that solves challenge t (before
\* challenge t is issued it carries no valid signature: an incorrectly
\* solved token); Garbage cannot be decoded.
Empty    == 0
Garbage  == NumTokens + 1
Payloads == 0..(NumTokens + 1)
Keys     == Payloads        \* the cache is keyed by the payload string

Methods  == {"GET", "POST"}

VARIABLES
    variant,                \* "map" | "ristretto"
    replayDetectionEnabled, \* ENABLE_REPLAY_DETECTION (main.go:24)
    expireTimeInMins,       \* EXPIRE_TIME_IN_MINS
    now,                    \* time.Now()
    issued,                 \* token -> expiry of its challenge, or None
    usedSolutions,          \* key -> stored time, or None
    setBuf,                 \* ristretto: writes accepted but not yet applied
    cacheMutex,             \* 0 free | request id | "cleaner" encoded as -1
    cleanerPc,              \* startCacheCleaner: "wait" | "locked"
    cacheCount,             \* occupancy counter (main.go:39)
    req,                    \* per-goroutine state of the request handlers
    served,                 \* /verify requests received so far
    hist                    \* key -> bookkeeping of the run (not program state)

vars == <<variant, replayDetectionEnabled, expireTimeInMins, now, issued,
          usedSolutions, setBuf, cacheMutex, cleanerPc, cacheCount, req,
          served, hist>>


Cleaner == NumReqs + 1      \* the cleaner goroutine as a holder of cacheMutex

\* ------------------------------------------------------------- responses
NoResponse == [status |-> 0, success |-> "none", msg |-> ""]

\* http.Error(w, text, code): a plain-text body, no JSON "success" field.
HttpError(text, code) == [status |-> code, success |-> "none", msg |-> text]

\* writeError(w, message): 200, {"success": false, "message": message}.
writeError(message) == [status |-> StatusOK, success |-> "false", msg |-> message]

\* writeJSON(w, {"success": true}).
writeSuccess == [status |-> StatusOK, success |-> "true", msg |-> ""]

\* A goroutine of the HTTP server.  route, method and payload are the
\* request; pc is the handler's position; resp is what it wrote.  verdict is
\* the verifier's answer; gets, calls, sets and provider count the cache
\* lookups, verifier calls, cache inserts and provider calls of the request;
\* prior is the age of the key's latest insert when the replay check ran.
IdleReq == [pc |-> "idle", route |-> "", method |-> "", payload |-> Empty,
            resp |-> NoResponse, verdict |-> "none", gets |-> 0, calls |-> 0,
            sets |-> 0, provider |-> 0, prior |-> "none"]

\* ------------------------------------------------------ external library
\* altcha.VerifySolution(payload, key, checkExpires = true): an undecodable
\* payload is an error; a payload that is not the solution of an issued
\* challenge, or whose challenge has expired, is (false, nil).
VerifySolution(p, t) ==
    IF p = Garbage THEN "err"
    ELSE IF p \in Tokens /\ issued[p] # None /\ t <= issued[p] THEN "ok"
    ELSE "false"

\* ------------------------------------------------------ handler conditions
\* r.Method != http.MethodPost
MethodNotPost(m) == m # "POST"

\* payload == ""
PayloadMissingMut(p) == FALSE
PayloadMissing(p) == p = Empty

\* replayDetectionEnabled && usedSolutions != nil  (main.go); the map variant
\* has no switch: its cache is always consulted.
CacheActiveMut == TRUE
CacheActive == variant = "map" \/ replayDetectionEnabled

\* err != nil || !verified
VerifyFailedMut(v) == v = "err"
VerifyFailed(v) == v = "err" \/ v # "ok"

\* ristretto Get: the entry is in the store and its TTL has not run out.
StoreGet(k) == usedSolutions[k] # None /\ ~(now > usedSolutions[k])

\* main.go:128-129  found && time.Now().Before(expiresAt)
\* part_000:95      _, found := usedSolutions[payload]
ReplayHit(k) ==
    IF variant = "map" THEN usedSolutions[k] # None
    ELSE StoreGet(k) /\ now < usedSolutions[k]

\* part_000:129  time.Since(t) > cacheTTL
SweepExpiredRev(t) == t - now > cacheTTL
SweepExpiredMut(t) == now - t >= cacheTTL
SweepExpired(t) == now - t > cacheTTL

\* The window during which a record is meant to block its key.
RecordTTL == IF variant = "map" THEN cacheTTL ELSE expireTimeInMins

\* Age of the latest insert of k relative to its window (bookkeeping).
PriorOf(k) ==
    IF hist[k].insertedAt = None THEN "never"
    ELSE IF now < hist[k].insertedAt + RecordTTL THEN "fresh"
    ELSE IF now = hist[k].insertedAt + RecordTTL THEN "edge"
    ELSE "stale"

Stored == {k \in Keys : usedSolutions[k] # None}

\* ------------------------------------------------------------------ Init
Init ==
    /\ variant \in {"map", "ristretto"}
    /\ replayDetectionEnabled \in BOOLEAN
    /\ variant = "map" => replayDetectionEnabled
    /\ expireTimeInMins \in ExpireChoices
    /\ now = 0
    /\ issued = [t \in Tokens |-> None]
    /\ usedSolutions = [k \in Keys |-> None]
    /\ setBuf = <<>>
    /\ cacheMutex = 0
    /\ cleanerPc = "wait"
    /\ cacheCount = 0
    /\ req = [r \in Reqs |-> IdleReq]
    /\ served = 0
    /\ hist = [k \in Keys |-> [insertedAt |-> None]]

conf == <<variant, replayDetectionEnabled, expireTimeInMins>>

\* ------------------------------------------------------------------ time
Tick ==
    /\ now < MaxTime
    /\ now' = now + 1
    /\ UNCHANGED <<conf, issued, usedSolutions, setBuf, cacheMutex, cleanerPc,
                   cacheCount, req, served, hist>>

\* ------------------------------------------------------------ /challenge
\* The handler writes its response and returns.
FinishMut(r, response) == [req[r] EXCEPT !.resp = response]
Finish(r, response) == [req[r] EXCEPT !.pc = "done", !.resp = response]

\* r.Method != http.MethodGet
MethodNotGet(m) == m # "GET"

\* challengeHandler (main.go:95-113, part_000:59-78); ok is the outcome of
\* altcha.CreateChallenge.  The client that solves the issued challenge
\* holds the next token payload.
challengeHandler(r, m, ok) ==
    /\ req[r].pc = "idle"
    /\ LET fresh == [IdleReq EXCEPT !.route = "/challenge", !.method = m,
                                    !.pc = "done"]
       IN
       IF MethodNotGet(m)
       THEN /\ req' = [req EXCEPT ![r] =
                         [fresh EXCEPT !.resp = HttpError("Method not allowed",
                                                   StatusMethodNotAllowed)]]
            /\ UNCHANGED issued
       ELSE IF ~ok
       THEN /\ req' = [req EXCEPT ![r] =
                         [fresh EXCEPT !.provider = 1,
                            !.resp = HttpError("Failed to create challenge",
                                               StatusInternalServerError)]]
            /\ UNCHANGED issued
       ELSE /\ req' = [req EXCEPT ![r] =
                         [fresh EXCEPT !.provider = 1,
                            !.resp = [status |-> StatusOK, success |-> "none",
                                      msg |-> "challenge"]]]
            /\ IF \E t \in Tokens : issued[t] = None
               THEN LET t == CHOOSE x \in Tokens :
                                 /\ issued[x] = None
                                 /\ \A y \in Tokens : issued[y] = None => x <= y
                    IN  issued' = [issued EXCEPT ![t] = now + expireTimeInMins]
               ELSE UNCHANGED issued
    /\ UNCHANGED <<conf, now, usedSolutions, setBuf, cacheMutex, cleanerPc,
                   cacheCount, served, hist>>

\* --------------------------------------------------------------- /verify
\* verifyHandler, method and payload checks (main.go:115-125,
\* part_000:81-91).
verifyReceive(r, m, p) ==
    /\ req[r].pc = "idle"
    /\ served < MaxVerify
    /\ served' = served + 1
    /\ LET rejected == [IdleReq EXCEPT !.route = "/verify", !.method = m,
                           !.pc = "done",
                           !.resp = HttpError("Method not allowed",
                                              StatusMethodNotAllowed)]
           fresh == [IdleReq EXCEPT !.route = "/verify", !.method = m,
                                    !.payload = p]
       IN
       req' = [req EXCEPT ![r] =
                 IF MethodNotPost(m)
                 THEN rejected          \* r.FormValue is not reached
                 ELSE IF PayloadMissing(p)
                 THEN [fresh EXCEPT !.pc = "done",
                          !.resp = HttpError("Altcha payload missing",
                                             StatusBadRequest)]
                 ELSE [fresh EXCEPT !.pc = "check"]]
    /\ UNCHANGED <<conf, now, issued, usedSolutions, setBuf, cacheMutex,
                   cleanerPc, cacheCount, hist>>

\* main.go:127-134: the replay check of the bounded variant.
verifyCheckGet(r) ==
    /\ variant = "ristretto"
    /\ req[r].pc = "check"
    /\ LET k == req[r].payload IN
       req' = [req EXCEPT ![r] =
                 IF CacheActive
                 THEN IF ReplayHit(k)
                      THEN [Finish(r, writeError("Replay detected"))
                               EXCEPT !.gets = @ + 1, !.prior = PriorOf(k)]
                      ELSE [@ EXCEPT !.pc = "verify", !.gets = @ + 1,
                                     !.prior = PriorOf(k)]
                 ELSE [@ EXCEPT !.pc = "verify", !.prior = PriorOf(k)]]
    /\ UNCHANGED <<conf, now, issued, usedSolutions, setBuf, cacheMutex,
                   cleanerPc, cacheCount, served, hist>>

\* part_000:94  cacheMutex.Lock()
verifyCheckLock(r) ==
    /\ variant = "map"
    /\ req[r].pc = "check"
    /\ cacheMutex = 0
    /\ cacheMutex' = r
    /\ req' = [req EXCEPT ![r].pc = "checkLocked"]
    /\ UNCHANGED <<conf, now, issued, usedSolutions, setBuf, cleanerPc,
                   cacheCount, served, hist>>

verifyCheckLookupMut(r) ==
    /\ variant = "map"
    /\ req[r].pc = "checkLocked"
    /\ cacheMutex = r
    /\ LET k == req[r].payload IN
       /\ req' = [req EXCEPT ![r] =
                    IF ReplayHit(k)
                    THEN [Finish(r, HttpError("Replay detected", StatusForbidden))
                             EXCEPT !.gets = @ + 1, !.prior = PriorOf(k)]
                    ELSE [@ EXCEPT !.pc = "verify", !.gets = @ + 1,
                                   !.prior = PriorOf(k)]]
       /\ cacheMutex' = IF ReplayHit(k) THEN r ELSE 0
    /\ UNCHANGED <<conf, now, issued, usedSolutions, setBuf, cleanerPc,
                   cacheCount, served, hist>>

\* part_000:95-100: lookup under the lock, Unlock on both paths.
verifyCheckLookup(r) ==
    /\ variant = "map"
    /\ req[r].pc = "checkLocked"
    /\ cacheMutex = r
    /\ LET k == req[r].payload IN
       req' = [req EXCEPT ![r] =
                 IF ReplayHit(k)
                 THEN [Finish(r, HttpError("Replay detected", StatusForbidden))
                          EXCEPT !.gets = @ + 1, !.prior = PriorOf(k)]
                 ELSE [@ EXCEPT !.pc = "verify", !.gets = @ + 1,
                                !.prior = PriorOf(k)]]
    /\ cacheMutex' = 0
    /\ UNCHANGED <<conf, now, issued, usedSolutions, setBuf, cleanerPc,
                   cacheCount, served, hist>>

\* The body of the failure response (main.go:138-144, part_000:109).
VerifyFailure(v) ==
    IF variant = "map"
    THEN HttpError("Invalid Altcha payload", StatusBadRequest)
    ELSE IF v = "err" THEN writeError("Verification error")
    ELSE writeError("Invalid or expired Altcha token")

\* main.go:136-146, part_000:102-111: the call of the Solution Verifier.
verifyVerify(r) ==
    /\ req[r].pc = "verify"
    /\ LET k == req[r].payload
           v == VerifySolution(k, now)
       IN  req' = [req EXCEPT ![r] =
                     IF VerifyFailed(v)
                     THEN [Finish(r, VerifyFailure(v))
                              EXCEPT !.verdict = v, !.calls = @ + 1]
                     ELSE [@ EXCEPT !.pc = "record", !.verdict = v,
                                    !.calls = @ + 1]]
    /\ UNCHANGED <<conf, now, issued, usedSolutions, setBuf, cacheMutex,
                   cleanerPc, cacheCount, served, hist>>

\* part_000:114  cacheMutex.Lock()
verifyRecordLock(r) ==
    /\ variant = "map"
    /\ req[r].pc = "record"
    /\ cacheMutex = 0
    /\ cacheMutex' = r
    /\ req' = [req EXCEPT ![r].pc = "recordLocked"]
    /\ UNCHANGED <<conf, now, issued, usedSolutions, setBuf, cleanerPc,
                   cacheCount, served, hist>>

\* part_000:115-120: usedSolutions[payload] = time.Now(), Unlock, success.
verifyRecordInsert(r) ==
    /\ variant = "map"
    /\ req[r].pc = "recordLocked"
    /\ cacheMutex = r
    /\ LET k == req[r].payload IN
       /\ usedSolutions' = [usedSolutions EXCEPT ![k] = now]
       /\ hist' = [hist EXCEPT ![k].insertedAt = now]
    /\ cacheMutex' = 0
    /\ req' = [req EXCEPT ![r] = [Finish(r, writeSuccess) EXCEPT !.sets = @ + 1]]
    /\ UNCHANGED <<conf, now, issued, setBuf, cleanerPc, cacheCount, served>>

\* ristretto's SetWithTTL(key, value, cost, ttl), as called at main.go:151.
\* A key already in the store is updated in place; the write is then handed
\* to the store's buffer, and a new key is dropped when the buffer is full.
SetWithTTL(k, exp) ==
    LET flag == IF usedSolutions[k] # None THEN "update" ELSE "new"
        item == [key |-> k, exp |-> exp, flag |-> flag]
    IN  /\ usedSolutions' = IF flag = "update"
                            THEN [usedSolutions EXCEPT ![k] = exp]
                            ELSE usedSolutions
        /\ setBuf' = IF Len(setBuf) < SetBufCap THEN Append(setBuf, item)
                     ELSE setBuf

\* main.go:148-151: record the accepted token (or skip the cache).
verifySet(r) ==
    /\ variant = "ristretto"
    /\ req[r].pc = "record"
    /\ LET k == req[r].payload IN
       IF CacheActive
       THEN /\ SetWithTTL(k, now + expireTimeInMins)
            /\ hist' = [hist EXCEPT ![k].insertedAt = now]
            /\ req' = [req EXCEPT ![r].pc = "count", ![r].sets = @ + 1]
       ELSE /\ req' = [req EXCEPT ![r] = Finish(r, writeSuccess)]
            /\ UNCHANGED <<usedSolutions, setBuf, hist>>
    /\ UNCHANGED <<conf, now, issued, cacheMutex, cleanerPc, cacheCount, served>>

\* main.go:152-155: atomic.AddInt64(&cacheCount, 1), then the success body.
verifyCount(r) ==
    /\ variant = "ristretto"
    /\ req[r].pc = "count"
    /\ cacheCount' = cacheCount + 1
    /\ req' = [req EXCEPT ![r] = Finish(r, writeSuccess)]
    /\ UNCHANGED <<conf, now, issued, usedSolutions, setBuf, cacheMutex,
                   cleanerPc, served, hist>>


\* The handler has written its response and returns: the goroutine is free
\* for the next request.
serveReturn(r) ==
    /\ req[r].pc = "done"
    /\ req' = [req EXCEPT ![r] = IdleReq]
    /\ UNCHANGED <<conf, now, issued, usedSolutions, setBuf, cacheMutex,
                   cleanerPc, cacheCount, served, hist>>

\* ------------------------------------------------- map variant: the sweep
\* startCacheCleaner, part_000:126-127: a tick arrives and the lock is taken.
cleanerLockMut ==
    /\ variant = "map"
    /\ cleanerPc = "wait"
    /\ cacheMutex' = Cleaner
    /\ cleanerPc' = "locked"
    /\ UNCHANGED <<conf, now, issued, usedSolutions, setBuf, cacheCount, req,
                   served, hist>>
cleanerLock ==
    /\ variant = "map"
    /\ cleanerPc = "wait"
    /\ cacheMutex = 0
    /\ cacheMutex' = Cleaner
    /\ cleanerPc' = "locked"
    /\ UNCHANGED <<conf, now, issued, usedSolutions, setBuf, cacheCount, req,
                   served, hist>>

\* part_000:128-133: delete every entry older than cacheTTL, Unlock.
cleanerSweep ==
    /\ variant = "map"
    /\ cleanerPc = "locked"
    /\ cacheMutex = Cleaner
    /\ usedSolutions' = [k \in Keys |->
                           IF usedSolutions[k] # None
                              /\ SweepExpired(usedSolutions[k])
                           THEN None ELSE usedSolutions[k]]
    /\ cacheMutex' = 0
    /\ cleanerPc' = "wait"
    /\ UNCHANGED <<conf, now, issued, setBuf, cacheCount, req, served, hist>>

\* ------------------------------------------- bounded variant: the store
\* OnEvict (main.go:51-54) for n evicted items.
OnEvict(n) == cacheCount' = cacheCount - n

\* The store's goroutine applies the oldest buffered write.  An update was
\* already applied by SetWithTTL.  A new key whose key is already held is
\* not added again; with room it is admitted; in a full store the admission
\* policy either declines it or evicts a victim for it.
storeProcess ==
    /\ variant = "ristretto"
    /\ setBuf # <<>>
    /\ LET i == Head(setBuf) IN
       /\ setBuf' = Tail(setBuf)
       /\ IF i.flag = "update" \/ usedSolutions[i.key] # None
          THEN UNCHANGED <<usedSolutions, cacheCount>>
          ELSE IF Cardinality(Stored) < StoreCap
          THEN /\ usedSolutions' = [usedSolutions EXCEPT ![i.key] = i.exp]
               /\ UNCHANGED cacheCount
          ELSE \/ UNCHANGED <<usedSolutions, cacheCount>>
               \/ \E v \in Stored :
                    /\ usedSolutions' = [usedSolutions EXCEPT ![v] = None,
                                                              ![i.key] = i.exp]
                    /\ OnEvict(1)
    /\ UNCHANGED <<conf, now, issued, cacheMutex, cleanerPc, req, served,
                   hist>>

\* The store's own TTL clean-up: entries whose TTL has run out are removed
\* and reported to OnEvict.
storeCleanup ==
    /\ variant = "ristretto"
    /\ LET gone == {k \in Stored : now > usedSolutions[k]} IN
       /\ gone # {}
       /\ usedSolutions' = [k \in Keys |->
                              IF k \in gone THEN None ELSE usedSolutions[k]]
       /\ OnEvict(Cardinality(gone))
    /\ UNCHANGED <<conf, now, issued, setBuf, cacheMutex, cleanerPc, req,
                   served, hist>>

\* ------------------------------------------------------------------ Next
Background ==
    \/ Tick
    \/ cleanerLock
    \/ cleanerSweep
    \/ storeProcess
    \/ storeCleanup

Handle(r) ==
    \/ verifyCheckGet(r)
    \/ verifyCheckLock(r)
    \/ verifyCheckLookup(r)
    \/ verifyVerify(r)
    \/ verifyRecordLock(r)
    \/ verifyRecordInsert(r)
    \/ verifySet(r)
    \/ verifyCount(r)
    \/ serveReturn(r)

Next ==
    \/ Background
    \/ \E r \in Reqs, m \in Methods, ok \in BOOLEAN : challengeHandler(r, m, ok)
    \/ \E r \in Reqs : Handle(r)
    \/ \E r \in Reqs, m \in Methods, p \in Payloads : verifyReceive(r, m, p)

Spec == Init /\ [][Next]_vars

\* Requests handled one after another: a request is taken only when no
\* other request is being handled.
AllIdle == \A q \in Reqs : req[q].pc = "idle"

challengeHandlerSeq(r, m, ok) ==
    /\ AllIdle
    /\ challengeHandler(r, m, ok)

verifyReceiveSeq(r, m, p) ==
    /\ AllIdle
    /\ verifyReceive(r, m, p)

NextSeq ==
    \/ Background
    \/ \E r \in Reqs, m \in Methods, ok \in BOOLEAN : challengeHandlerSeq(r, m, ok)
    \/ \E r \in Reqs : Handle(r)
    \/ \E r \in Reqs, m \in Methods, p \in Payloads : verifyReceiveSeq(r, m, p)

SpecSeq == Init /\ [][NextSeq]_vars


\* ===================================================================
\* Properties
\* ===================================================================
VerifyDone(r) == req[r].pc = "done" /\ req[r].route = "/verify"
Accepted(r)   == VerifyDone(r) /\ req[r].resp = writeSuccess
ReplayRejected(r) == VerifyDone(r) /\ req[r].resp.msg = "Replay detected"
InSetBuf(k)   == \E i \in 1..Len(setBuf) : setBuf[i].key = k
Held(k)       == usedSolutions[k] # None \/ InSetBuf(k)

\* End of the blocking period of the record stored for k.
ExpiresAt(k) ==
    IF variant = "map" THEN usedSolutions[k] + cacheTTL ELSE usedSolutions[k]

\* The step in which request r looks its payload up in the cache.
LookupStep(r) ==
    \/ variant = "map" /\ req[r].pc = "checkLocked" /\ req'[r].pc # "checkLocked"
    \/ variant = "ristretto" /\ CacheActive /\ req[r].pc = "check"
          /\ req'[r].pc # "check"

\* The step in which the cleaner sweeps the map and releases the lock.
SweepStep == cleanerPc = "locked" /\ cleanerPc' = "wait"

\* C1: with replay detection active and requests handled one after another,
\* a request for a token that was never inserted reaches the verifier and
\* is accepted when the verifier accepts it, and a request for a token whose
\* insert returned less than the record TTL ago is answered "Replay
\* detected" without a verifier call.
C1_OnceThenReplay ==
    CacheActive =>
      \A r \in Reqs :
        /\ req[r].prior = "never" /\ VerifyDone(r) =>
              /\ req[r].calls = 1
              /\ req[r].verdict = "ok" => Accepted(r)
        /\ req[r].prior = "fresh" => ReplayRejected(r) /\ req[r].calls = 0

\* C2: when two or more requests for the same valid token all ran their
\* replay check while the token had never been inserted, exactly one of
\* them is accepted.
C2_ExactlyOneWinner ==
    CacheActive =>
      \A t \in Tokens :
        LET S == {r \in Reqs : /\ VerifyDone(r)
                               /\ req[r].payload = t
                               /\ req[r].prior = "never"
                               /\ req[r].verdict = "ok"}
        IN  Cardinality(S) >= 2 =>
              Cardinality({r \in S : Accepted(r)}) = 1

\* C3: a request inserts into the cache only after its own verifier call
\* returned success; every key the cache holds is the solved payload of an
\* issued challenge that a request inserted; a request whose verifier call
\* failed has finished without inserting and without a success response.
C3_InsertOnlyAfterVerify ==
    /\ \A r \in Reqs :
         /\ (req[r].sets > 0 \/ req[r].pc \in {"record", "recordLocked", "count"})
               => req[r].verdict = "ok" /\ req[r].calls = 1
         /\ req[r].verdict \in {"false", "err"}
               => /\ req[r].pc = "done"
                  /\ req[r].sets = 0
                  /\ req[r].resp.success # "true"
    /\ \A k \in Keys :
         Held(k) => /\ k \in Tokens
                    /\ issued[k] # None
                    /\ hist[k].insertedAt # None

C3_Witness ==
    /\ CacheActive
    /\ \E r \in Reqs : VerifyDone(r) /\ req[r].verdict = "false"
          /\ ~Held(req[r].payload)
    /\ \E k \in Keys : usedSolutions[k] # None

\* C4: a request that looks up a key whose record is still stored but past
\* its expires_at is not rejected as a replay: it proceeds to the verifier.
C4_LazyExpiry ==
    [][\A r \in Reqs :
         LET k == req[r].payload IN
         (LookupStep(r) /\ usedSolutions[k] # None /\ now > ExpiresAt(k))
            => req'[r].pc = "verify"]_vars

\* C5: with replay detection disabled no request reads or writes the cache,
\* the occupancy counter stays 0, nothing is rejected as a replay, every
\* POST with a payload reaches the verifier, and every request the verifier
\* accepts is accepted.
C5_DisabledBypassesCache ==
    (variant = "ristretto" /\ ~replayDetectionEnabled) =>
      /\ \A k \in Keys : ~Held(k)
      /\ cacheCount = 0
      /\ \A r \in Reqs :
           /\ req[r].gets = 0 /\ req[r].sets = 0
           /\ ~ReplayRejected(r)
           /\ (VerifyDone(r) /\ req[r].method = "POST"
                 /\ req[r].payload # Empty) => req[r].calls = 1
           /\ (VerifyDone(r) /\ req[r].verdict = "ok") => Accepted(r)

C5_Witness ==
    /\ variant = "ristretto" /\ ~replayDetectionEnabled
    /\ served = 2
    /\ \E t \in Tokens : \A r \in Reqs : Accepted(r) /\ req[r].payload = t

\* C6: a replay hit ends the request with HTTP 200, success=false and the
\* message "Replay detected", and without a verifier call.
C6_ReplayIsStructured ==
    \A r \in Reqs :
      req[r].resp.msg = "Replay detected" =>
        /\ req[r].resp.status = StatusOK
        /\ req[r].resp.success = "false"
        /\ req[r].calls = 0

\* C7: a verifier error and a verifier "false" are both answered with a
\* structured failure (success=false), with the messages "Verification
\* error" and "Invalid or expired Altcha token" respectively.
C7_FailuresDistinguished ==
    \A r \in Reqs :
      /\ req[r].verdict = "err" =>
            /\ req[r].resp.success = "false"
            /\ req[r].resp.msg = "Verification error"
      /\ req[r].verdict = "false" =>
            /\ req[r].resp.success = "false"
            /\ req[r].resp.msg = "Invalid or expired Altcha token"

C9_SweepRemovesUpToNow ==
    [][SweepStep =>
         LET expired == {k \in Stored : usedSolutions[k] + cacheTTL <= now} IN
         /\ \A k \in expired : usedSolutions'[k] = None
         /\ \A k \in Keys \ expired : usedSolutions'[k] = usedSolutions[k]
         /\ Cardinality(Stored) - Cardinality(Stored') = Cardinality(expired)
      ]_vars

\* C9 amended: a sweep removes exactly the entries with expires_at < now (an
\* entry inserted exactly cacheTTL ago stays), keeps every other entry
\* unchanged, and the number removed is the number of such entries.
C9_SweepRemovesBeforeNow ==
    [][SweepStep =>
         LET expired == {k \in Stored : usedSolutions[k] + cacheTTL < now} IN
         /\ \A k \in expired : usedSolutions'[k] = None
         /\ \A k \in Keys \ expired : usedSolutions'[k] = usedSolutions[k]
         /\ Cardinality(Stored) - Cardinality(Stored') = Cardinality(expired)
      ]_vars

\* A sweep has removed one inserted entry and left another, which is exactly
\* cacheTTL old, in place.
C9_Witness ==
    /\ variant = "map"
    /\ cleanerPc = "wait"
    /\ \E k1, k2 \in Keys :
         /\ hist[k1].insertedAt # None /\ usedSolutions[k1] = None
         /\ usedSolutions[k2] # None /\ usedSolutions[k2] + cacheTTL = now

\* C10: from the return of insert(key, ttl) until the TTL has elapsed, the
\* replay check reports the key as present and active.
C10_InsertThenContains ==
    CacheActive =>
      \A k \in Keys : PriorOf(k) = "fresh" => ReplayHit(k)

\* The step in which request r inserts its payload into the cache.
InsertStep(r) ==
    \/ variant = "map" /\ req[r].pc = "recordLocked" /\ req'[r].pc = "done"
    \/ variant = "ristretto" /\ CacheActive /\ req[r].pc = "record"
          /\ req'[r].pc = "count"

\* End of the blocking period of the record that an insert step writes for
\* k: the map stores the insertion time and keeps the entry for cacheTTL;
\* the bounded store takes the expiry from the call (an update in place or
\* the buffered write; a dropped write leaves no record).
WrittenExpiry(k) ==
    IF variant = "map" THEN usedSolutions'[k] + cacheTTL
    ELSE IF usedSolutions[k] # None THEN usedSolutions'[k]
    ELSE IF Len(setBuf') > Len(setBuf) THEN setBuf'[Len(setBuf')].exp
    ELSE now + expireTimeInMins

\* C11: every insert records its token with a blocking period that ends at
\* insertion time + the configured challenge TTL, the duration /challenge
\* adds to now for the challenge's expiry.
C11_InsertUsesChallengeTTL ==
    [][\A r \in Reqs :
         InsertStep(r) =>
            WrittenExpiry(req[r].payload) = now + expireTimeInMins]_vars

\* C12: no insert is performed for a key that is present and unexpired, and
\* the time stored for a present key does not change while it stays present.
C12_RecordImmutable ==
    [][/\ \A r \in Reqs :
            LET k == req[r].payload IN
            InsertStep(r) => ~(usedSolutions[k] # None /\ now < ExpiresAt(k))
       /\ \A k \in Keys :
            (usedSolutions[k] # None /\ usedSolutions'[k] # None)
               => usedSolutions'[k] = usedSolutions[k]]_vars

\* Position of a handler state in the order RECEIVED, CHECK_REPLAY, VERIFY,
\* RECORD, terminal.
StageOf(pc) ==
    CASE pc = "idle"                        -> 0
      [] pc \in {"check", "checkLocked"}    -> 1
      [] pc = "verify"                      -> 2
      [] pc \in {"record", "recordLocked", "count"} -> 3
      [] pc = "done"                        -> 4

\* Position of a handler state within the handler's code.
PcRank(pc) ==
    CASE pc = "idle"         -> 0
      [] pc = "check"        -> 1
      [] pc = "checkLocked"  -> 2
      [] pc = "verify"       -> 3
      [] pc = "record"       -> 4
      [] pc = "recordLocked" -> 5
      [] pc = "count"        -> 6
      [] pc = "done"         -> 7

\* C14: a /verify request moves only forward through RECEIVED,
\* CHECK_REPLAY, VERIFY, RECORD and writes exactly one response, when it
\* ends; the verifier is called at most once and only after the replay
\* check missed (or was bypassed with replay detection disabled); the
\* insert happens at most once and only after the verifier succeeded; the
\* success response is written only from RECORD; no step is retried.
C14_VerifyPipelineOrder ==
    [][\A r \in Reqs :
         LET a == req[r]
             b == req'[r]
         IN  (b.route = "/verify" /\ a # b) =>
              /\ PcRank(b.pc) > PcRank(a.pc)
              /\ b.pc = "verify" =>
                    /\ StageOf(a.pc) = 1
                    /\ CacheActive => b.gets = 1 /\ ~ReplayHit(a.payload)
              /\ b.calls # a.calls =>
                    /\ a.pc = "verify" /\ a.calls = 0 /\ b.calls = 1
                    /\ StageOf(b.pc) > 2
              /\ b.gets # a.gets =>
                    /\ StageOf(a.pc) = 1 /\ a.gets = 0 /\ b.gets = 1
                    /\ StageOf(b.pc) > 1
              /\ StageOf(b.pc) = 3 => b.verdict = "ok" /\ b.calls = 1
              /\ b.sets # a.sets =>
                    /\ StageOf(a.pc) = 3 /\ a.sets = 0 /\ b.sets = 1
                    /\ a.verdict = "ok"
              /\ b.resp # a.resp =>
                    /\ a.resp = NoResponse /\ b.pc = "done"
              /\ b.pc = "done" =>
                    /\ b.resp # NoResponse
                    /\ b.resp = writeSuccess <=>
                          /\ StageOf(a.pc) = 3
                          /\ CacheActive => b.sets = 1]_vars

\* One request was accepted after one lookup, one verifier call and one
\* insert, and another was rejected as a replay without a verifier call.
C14_Witness ==
    /\ \E r \in Reqs : Accepted(r) /\ req[r].gets = 1 /\ req[r].calls = 1
          /\ req[r].sets = 1
    /\ \E r \in Reqs : ReplayRejected(r) /\ req[r].gets = 1 /\ req[r].calls = 0

\* Requests inside the check section and the insert section.
InCheck  == {r \in Reqs : req[r].pc = "checkLocked"}
InInsert == {r \in Reqs : req[r].pc = "recordLocked"}
InSweep  == cleanerPc = "locked"

\* C15: the cache lock is held by a request exactly while it is inside its
\* check section or its insert section, and by the cleaner exactly while it
\* sweeps; at most one such section is open at a time; a request that is
\* between the two sections (calling the verifier, or waiting for the lock)
\* does not hold the lock.
C15_OneSectionAtATime ==
    /\ \A r \in Reqs : cacheMutex = r <=> r \in InCheck \cup InInsert
    /\ cacheMutex = Cleaner <=> InSweep
    /\ Cardinality(InCheck \cup InInsert) + (IF InSweep THEN 1 ELSE 0) <= 1
    /\ \A r \in Reqs :
         req[r].pc \in {"check", "verify", "record"} => cacheMutex # r

\* One request is calling the verifier while another is inside its insert
\* section, and the cleaner waits.
C15_Witness ==
    /\ variant = "map"
    /\ \E r1, r2 \in Reqs :
         /\ req[r1].pc = "verify"
         /\ req[r2].pc = "recordLocked" /\ cacheMutex = r2
    /\ cleanerPc = "wait"

\* C17: with replay detection active and requests handled one after
\* another, a token that was accepted (and so inserted) before is not
\* accepted again once the blocking period of its record has run out: no
\* request is accepted whose replay check ran when the window of an earlier
\* record of its token had ended.  (A check that runs inside the window
\* misses only when the record was lost early, which the claim sets aside.)
C17_AcceptedAtMostOnce ==
    CacheActive =>
      \A r \in Reqs : Accepted(r) => req[r].prior \in {"never", "fresh"}

\* healthHandler (main.go:76-93): the fields of the /health body that depend
\* on the modelled state.
healthHandler ==
    [status |-> "ok", cache |-> cacheCount,
     replayDetectionEnabled |-> replayDetectionEnabled]

\* C18: in the bounded variant the occupancy reported by /health is never
\* negative and, whenever no request is between its insert and its counter
\* increment, equals the number of keys the cache holds (stored, or accepted
\* into the store's write buffer).
C18_CacheCountMatches ==
    variant = "ristretto" =>
      /\ healthHandler.cache >= 0
      /\ (\A r \in Reqs : req[r].pc # "count") =>
            healthHandler.cache = Cardinality({k \in Keys : Held(k)})

\* ===================================================================
\* The map variant under fair scheduling
\* ===================================================================
\* The server of part_000 alone: its handlers, its cleaner and the clock,
\* with a challenge window longer than cacheTTL.  The clients fetch
\* challenges and post token payloads (solved ones, and ones whose
\* challenge was never issued): the requests that reach the cache lock.
InitMap == Init /\ variant = "map" /\ expireTimeInMins = 4

HandleMap(r) ==
    \/ verifyCheckLock(r)
    \/ verifyCheckLookup(r)
    \/ verifyVerify(r)
    \/ verifyRecordLock(r)
    \/ verifyRecordInsert(r)
    \/ serveReturn(r)

NextMap ==
    \/ Tick
    \/ cleanerLock
    \/ cleanerSweep
    \/ \E r \in Reqs : challengeHandler(r, "GET", TRUE)
    \/ \E r \in Reqs : HandleMap(r)
    \/ \E r \in Reqs, p \in Tokens : verifyReceive(r, "POST", p)

\* Scheduling of the Go runtime.  A runnable goroutine is eventually run
\* (weak fairness of every step that waits for nothing).  sync.Mutex hands
\* the lock to a goroutine that has waited long (starvation mode), so a
\* goroutine blocked in Lock() while the lock is released again and again
\* eventually gets it (strong fairness of the lock steps).  The ticker of
\* startCacheCleaner fires every 15 minutes, and the clock advances.
FairMap ==
    /\ WF_vars(Tick)
    /\ SF_vars(cleanerLock)
    /\ WF_vars(cleanerSweep)
    /\ \A r \in Reqs :
         /\ SF_vars(verifyCheckLock(r))
         /\ WF_vars(verifyCheckLookup(r))
         /\ WF_vars(verifyVerify(r))
         /\ SF_vars(verifyRecordLock(r))
         /\ WF_vars(verifyRecordInsert(r))
         /\ WF_vars(serveReturn(r))

SpecFair == InitMap /\ [][NextMap]_vars /\ FairMap

\* A goroutine that holds cacheMutex can take its next step, which releases
\* the lock; when the lock is free every goroutine waiting in Lock() can
\* take it.
LockHolderRuns ==
    /\ \A r \in Reqs : cacheMutex = r =>
          ENABLED (verifyCheckLookup(r) \/ verifyRecordInsert(r))
    /\ cacheMutex = Cleaner => ENABLED cleanerSweep
    /\ cacheMutex = 0 =>
          \A r \in Reqs :
            /\ req[r].pc = "check" => ENABLED verifyCheckLock(r)
            /\ req[r].pc = "record" => ENABLED verifyRecordLock(r)

\* Request r has started its check or its insert and has not completed it:
\* it waits for the lock or is inside the section.
InCacheOp(r) ==
    req[r].pc \in {"check", "checkLocked", "record", "recordLocked"}

\* C13: the system never deadlocks (whoever holds the cache lock can run
\* and release it, and a free lock can be taken by whoever waits for it),
\* and under fair scheduling the lock is always released again (by a
\* request's check or insert section and by the sweep) and every request
\* that started its check or its insert completes it.
C13_NoPermanentBlocking ==
    /\ LockHolderRuns
    /\ [][LockHolderRuns']_vars
    /\ (cacheMutex # 0) ~> (cacheMutex = 0)
    /\ \A r \in Reqs : InCacheOp(r) ~> ~InCacheOp(r)

\* Both requests wait for the lock, one to check and one to insert, while
\* the cleaner holds it.
C13_Witness ==
    /\ cacheMutex = Cleaner
    /\ \E r1, r2 \in Reqs : req[r1].pc = "check" /\ req[r2].pc = "record"

\* C16: a record leaves the cache only at a sweep and only after its
\* expires_at has passed, and, with the sweep ticks firing and the clock
\* advancing, every record in the cache is eventually removed, unless the
\* clock's horizon is reached before the record's expires_at has passed.
C16_RecordsEventuallySwept ==
    /\ [][\A k \in Keys :
            (usedSolutions[k] # None /\ usedSolutions'[k] = None)
               => SweepStep /\ now > ExpiresAt(k)]_vars
    /\ \A k \in Tokens :
         (usedSolutions[k] # None)
            ~> \/ usedSolutions[k] = None
               \/ now = MaxTime /\ ~(now > ExpiresAt(k))

\* A token was inserted and later removed by a sweep, which has ended.
C16_Witness ==
    /\ variant = "map"
    /\ cleanerPc = "wait" /\ cacheMutex = 0
    /\ \E k \in Tokens : hist[k].insertedAt # None /\ usedSolutions[k] = None
    /\ \A k \in Keys : usedSolutions[k] = None

====
